---- MODULE Spec2Model ----
(***************************************************************************)
(* Model of pmt (prompt template tool): the template tokenizer, the        *)
(* placeholder parser, field extraction, rendering, the title tree builder *)
(* (src/src/parser.rs) and the application state machine (src/src/app.rs). *)
(*                                                                         *)
(* A Rust String is modelled as a sequence of one-character strings.       *)
(* Option<T> is modelled as a sequence of length 0 (None) or 1 (Some).     *)
(* Indexes kept in the program state (template_index, depth, selection,    *)
(* active_field) are 0-based as in the code.                               *)
(***************************************************************************)
EXTENDS Integers, Sequences, FiniteSets, TLC

VARIABLES
    body,        \* parser harness: the template body handed to parse_tokens
    tokens,      \* parser harness: result of parse_tokens(body)
    fields,      \* parser harness: result of collect_fields(tokens)
    output,      \* parser harness: result of render_template(tokens, fields)
    tree_templates, \* tree harness: the templates handed to build_tree_items
    tree_result,    \* tree harness: result of build_tree_items(tree_templates)
    pc,          \* position: of the harness, or of the main loop of run_app
    templates,      \* App.templates
    tree_items,     \* App.tree_items
    list_state,     \* App.list_state.selected(): None or Some(index)
    list_scroll,    \* App.list_scroll
    view,           \* App.view: "List", "Editor" or "Error"
    editor,         \* App.editor: None or Some(EditorState)
    error_message,  \* App.error_message
    last_click,     \* App.last_click: None or Some(index) (the Instant is an input)
    tree_area,      \* App.tree_area
    should_quit,    \* App.should_quit
    list_status,    \* App.list_status: None or Some(text)
    needs_redraw,   \* App.needs_redraw
    preview,        \* the rendered text shown by the last draw of the editor view
    source,         \* load harness: the file system that App::load finds
    random_spec,    \* options harness: the text handed to parse_random_options
    random_options  \* options harness: result of parse_random_options(random_spec)

parser_vars == <<body, tokens, fields, output>>
tree_vars == <<tree_templates, tree_result>>
app_vars == <<templates, tree_items, list_state, list_scroll, view, editor,
              error_message, last_click, tree_area, should_quit, list_status,
              needs_redraw, preview>>
random_vars == <<random_spec, random_options>>
vars == <<parser_vars, tree_vars, pc, app_vars, source, random_vars>>

None == <<>>
Some(x) == <<x>>

Rect(x, y, width, height) == [x |-> x, y |-> y, width |-> width, height |-> height]

\* the application is not part of the parser and tree specifications
NoApp ==
    /\ templates = <<>>
    /\ tree_items = <<>>
    /\ list_state = None
    /\ list_scroll = 0
    /\ view = "List"
    /\ editor = None
    /\ error_message = None
    /\ last_click = None
    /\ tree_area = Rect(0, 0, 0, 0)
    /\ should_quit = FALSE
    /\ list_status = None
    /\ needs_redraw = FALSE
    /\ preview = None

(***************************************************************************)
(* Bounds                                                                  *)
(***************************************************************************)
MaxPieces == 3
MaxTemplates == 3
MaxValueLen == 1

(***************************************************************************)
(* String primitives of the Rust standard library used by the parser       *)
(***************************************************************************)
\* char::is_whitespace: the Unicode White_Space characters.  Those that a
\* string of this module cannot hold are named by their code point.
IsWhitespace(c) ==
    c \in {" ", "\t", "\n", "\r", "\f", "U+000B", "U+0085", "U+00A0", "U+1680",
           "U+2000", "U+2001", "U+2002", "U+2003", "U+2004", "U+2005", "U+2006",
           "U+2007", "U+2008", "U+2009", "U+200A", "U+2028", "U+2029", "U+202F",
           "U+205F", "U+3000"}

\* body[from..to], 0-based, half-open
Slice(s, from, to) == SubSeq(s, from + 1, to)

RECURSIVE FindFrom(_, _, _)
FindFrom(s, c, i) ==
    IF i > Len(s) THEN None
    ELSE IF s[i] = c THEN Some(i - 1)
    ELSE FindFrom(s, c, i + 1)

\* str::find(char): 0-based position of the first occurrence
Find(s, c) == FindFrom(s, c, 1)

RECURSIVE TrimStart(_)
TrimStart(s) ==
    IF s # <<>> /\ IsWhitespace(Head(s)) THEN TrimStart(Tail(s)) ELSE s

RECURSIVE TrimEnd(_)
TrimEnd(s) ==
    IF s # <<>> /\ IsWhitespace(s[Len(s)])
    THEN TrimEnd(SubSeq(s, 1, Len(s) - 1))
    ELSE s

Trim(s) == TrimEnd(TrimStart(s))

RECURSIVE TrimStartMatches(_, _)
TrimStartMatches(s, c) ==
    IF s # <<>> /\ Head(s) = c THEN TrimStartMatches(Tail(s), c) ELSE s

RECURSIVE TrimEndMatches(_, _)
TrimEndMatches(s, c) ==
    IF s # <<>> /\ s[Len(s)] = c
    THEN TrimEndMatches(SubSeq(s, 1, Len(s) - 1), c)
    ELSE s

TrimMatches(s, c) == TrimEndMatches(TrimStartMatches(s, c), c)

StartsWith(s, p) == Len(s) >= Len(p) /\ SubSeq(s, 1, Len(p)) = p

StripPrefix(s, p) ==
    IF StartsWith(s, p) THEN Some(SubSeq(s, Len(p) + 1, Len(s))) ELSE None

\* str::splitn(2, c): one part when c is absent, else the text before the
\* first c and everything after it
SplitN2(s, c) ==
    LET at == Find(s, c) IN
    IF at = None THEN <<s>>
    ELSE <<Slice(s, 0, at[1]), Slice(s, at[1] + 1, Len(s))>>

RECURSIVE SplitWhitespaceLoop(_, _, _)
SplitWhitespaceLoop(s, cur, acc) ==
    IF s = <<>> THEN (IF cur = <<>> THEN acc ELSE Append(acc, cur))
    ELSE IF IsWhitespace(Head(s))
         THEN SplitWhitespaceLoop(Tail(s), <<>>,
                                  IF cur = <<>> THEN acc ELSE Append(acc, cur))
         ELSE SplitWhitespaceLoop(Tail(s), Append(cur, Head(s)), acc)

SplitWhitespace(s) == SplitWhitespaceLoop(s, <<>>, <<>>)

RECURSIVE Concat(_)
Concat(ss) == IF ss = <<>> THEN <<>> ELSE Head(ss) \o Concat(Tail(ss))

RandomPrefix == <<"r", "a", "n", "d", "o", "m", "|">>

(***************************************************************************)
(* Token and Field (src/src/models.rs)                                     *)
(***************************************************************************)
Text(text) == [kind |-> "Text", text |-> text]
Var(name, desc, raw) == [kind |-> "Var", name |-> name, desc |-> desc, raw |-> raw]
Random(options, choice, raw) ==
    [kind |-> "Random", options |-> options, choice |-> choice, raw |-> raw]
Field(name, label, value) == [name |-> name, label |-> label, value |-> value]

(***************************************************************************)
(* parse_random_options                                                    *)
(***************************************************************************)
\* mutant: a quote that is never closed contributes nothing
RECURSIVE QuotedLoop_dropsUnclosed(_, _, _, _)
QuotedLoop_dropsUnclosed(input, in_quote, current, options) ==
    IF input = <<>>
    THEN options
    ELSE LET ch == Head(input) IN
         IF ch = "\""
         THEN IF in_quote
              THEN QuotedLoop_dropsUnclosed(Tail(input), FALSE, <<>>, Append(options, current))
              ELSE QuotedLoop_dropsUnclosed(Tail(input), TRUE, current, options)
         ELSE IF in_quote
              THEN QuotedLoop_dropsUnclosed(Tail(input), in_quote, Append(current, ch), options)
              ELSE QuotedLoop_dropsUnclosed(Tail(input), in_quote, current, options)

RECURSIVE QuotedLoop(_, _, _, _)
QuotedLoop(input, in_quote, current, options) ==
    IF input = <<>>
    THEN (IF in_quote /\ current # <<>> THEN Append(options, current) ELSE options)
    ELSE LET ch == Head(input) IN
         IF ch = "\""
         THEN IF in_quote
              THEN QuotedLoop(Tail(input), FALSE, <<>>, Append(options, current))
              ELSE QuotedLoop(Tail(input), TRUE, current, options)
         ELSE IF in_quote
              THEN QuotedLoop(Tail(input), in_quote, Append(current, ch), options)
              ELSE QuotedLoop(Tail(input), in_quote, current, options)

\* mutant: the pieces keep their commas
RECURSIVE FallbackOptions_noTrim(_)
FallbackOptions_noTrim(parts) ==
    IF parts = <<>> THEN <<>>
    ELSE LET part == Head(parts) IN
         IF part # <<>> THEN <<part>> \o FallbackOptions_noTrim(Tail(parts))
         ELSE FallbackOptions_noTrim(Tail(parts))

RECURSIVE FallbackOptions(_)
FallbackOptions(parts) ==
    IF parts = <<>> THEN <<>>
    ELSE LET part == TrimMatches(Head(parts), ",") IN
         IF part # <<>> THEN <<part>> \o FallbackOptions(Tail(parts))
         ELSE FallbackOptions(Tail(parts))

parse_random_options(input) ==
    LET options == QuotedLoop(input, FALSE, <<>>, <<>>) IN
    IF options = <<>> THEN FallbackOptions(SplitWhitespace(input)) ELSE options

(***************************************************************************)
(* parse_placeholder: the set of results the call can return (the initial  *)
(* choice of a Random token is drawn from its options by the rng).         *)
(* None stands for Option::None, Some(token) for Option::Some.             *)
(***************************************************************************)
\* mutant: when the part before "|" is blank, the part after it is taken as
\* the name
parse_var_nameFromDesc(trimmed, raw) ==
    LET parts == SplitN2(trimmed, "|")
        name  == Trim(parts[1])
    IN IF name = <<>>
       THEN IF Len(parts) = 2 /\ Trim(parts[2]) # <<>>
            THEN Some(Var(Trim(parts[2]), None, raw))
            ELSE None
       ELSE Some(Var(name,
                     IF Len(parts) = 2 THEN Some(Trim(parts[2])) ELSE None,
                     raw))

\* mutant: a missing description becomes an empty one
parse_var_descDefault(trimmed, raw) ==
    LET parts == SplitN2(trimmed, "|")
        name  == Trim(parts[1])
    IN IF name = <<>> THEN None
       ELSE Some(Var(name,
                     IF Len(parts) = 2 THEN Some(Trim(parts[2])) ELSE Some(<<>>),
                     raw))

parse_var(trimmed, raw) ==
    LET parts == SplitN2(trimmed, "|")
        name  == Trim(parts[1])
    IN IF name = <<>> THEN None
       ELSE Some(Var(name,
                     IF Len(parts) = 2 THEN Some(Trim(parts[2])) ELSE None,
                     raw))

parse_placeholder(inner, raw) ==
    LET trimmed == Trim(inner)
        rest    == StripPrefix(trimmed, RandomPrefix)
    IN IF rest # None
       THEN LET options == parse_random_options(rest[1]) IN
            IF options = <<>> THEN {Some(Text(raw))}
            ELSE {Some(Random(options, options[i], raw)) : i \in 1..Len(options)}
       ELSE {parse_var(trimmed, raw)}

(***************************************************************************)
(* parse_tokens: the set of token sequences the call can return            *)
(***************************************************************************)
\* mutant: the text after the last placeholder is lost
parse_rest_dropsTail(b, index, toks) == toks

\* mutant: a Text token is pushed even when nothing is left
parse_rest_pushesEmpty(b, index, toks) ==
    IF index <= Len(b) THEN Append(toks, Text(Slice(b, index, Len(b)))) ELSE toks

\* after the while loop: the text left after the last placeholder
parse_rest(b, index, toks) ==
    IF index < Len(b) THEN Append(toks, Text(Slice(b, index, Len(b)))) ELSE toks

\* mutant: after a { without } the scan goes on behind that {
RECURSIVE parse_loop_retries(_, _, _)
parse_loop_retries(b, index, toks) ==
    LET found == Find(Slice(b, index, Len(b)), "{") IN
    IF found = None
    THEN {parse_rest(b, index, toks)}
    ELSE LET start_idx == index + found[1]
             toks1 == IF start_idx > index
                      THEN Append(toks, Text(Slice(b, index, start_idx)))
                      ELSE toks
             after == Slice(b, start_idx + 1, Len(b))
             end_rel == Find(after, "}")
         IN IF end_rel # None
            THEN LET end_idx == start_idx + 1 + end_rel[1]
                     inner == Slice(b, start_idx + 1, end_idx)
                     raw == Slice(b, start_idx, end_idx + 1)
                 IN UNION {parse_loop_retries(b, end_idx + 1,
                                      Append(toks1, IF r # None THEN r[1] ELSE Text(raw)))
                           : r \in parse_placeholder(inner, raw)}
            ELSE parse_loop_retries(b, start_idx + 1, Append(toks1, Text(<<"{">>)))

\* mutant: a span ends at the last } of the body
RECURSIVE parse_loop_greedy(_, _, _)
parse_loop_greedy(b, index, toks) ==
    LET found == Find(Slice(b, index, Len(b)), "{") IN
    IF found = None
    THEN {parse_rest(b, index, toks)}
    ELSE LET start_idx == index + found[1]
             toks1 == IF start_idx > index
                      THEN Append(toks, Text(Slice(b, index, start_idx)))
                      ELSE toks
             after == Slice(b, start_idx + 1, Len(b))
             ends == {i \in 1..Len(after) : after[i] = "}"}
             end_rel == IF ends = {} THEN None
                        ELSE Some((CHOOSE i \in ends : \A j \in ends : j <= i) - 1)
         IN IF end_rel # None
            THEN LET end_idx == start_idx + 1 + end_rel[1]
                     inner == Slice(b, start_idx + 1, end_idx)
                     raw == Slice(b, start_idx, end_idx + 1)
                 IN UNION {parse_loop_greedy(b, end_idx + 1,
                                      Append(toks1, IF r # None THEN r[1] ELSE Text(raw)))
                           : r \in parse_placeholder(inner, raw)}
            ELSE parse_loop_greedy(b, Len(b), Append(toks1, Text(Slice(b, start_idx, Len(b)))))

RECURSIVE parse_loop(_, _, _)
parse_loop(b, index, toks) ==
    LET found == Find(Slice(b, index, Len(b)), "{") IN
    IF found = None
    THEN {parse_rest(b, index, toks)}
    ELSE LET start_idx == index + found[1]
             toks1 == IF start_idx > index
                      THEN Append(toks, Text(Slice(b, index, start_idx)))
                      ELSE toks
             after == Slice(b, start_idx + 1, Len(b))
             end_rel == Find(after, "}")
         IN IF end_rel # None
            THEN LET end_idx == start_idx + 1 + end_rel[1]
                     inner == Slice(b, start_idx + 1, end_idx)
                     raw == Slice(b, start_idx, end_idx + 1)
                 IN UNION {parse_loop(b, end_idx + 1,
                                      Append(toks1, IF r # None THEN r[1] ELSE Text(raw)))
                           : r \in parse_placeholder(inner, raw)}
            ELSE parse_loop(b, Len(b), Append(toks1, Text(Slice(b, start_idx, Len(b)))))

parse_tokens(b) == parse_loop(b, 0, <<>>)

(***************************************************************************)
(* collect_fields                                                          *)
(***************************************************************************)
\* mutant: an empty description is still put in parentheses
field_label_alwaysParen(name, desc) ==
    IF desc # None
    THEN name \o <<" ", "(">> \o desc[1] \o <<")">>
    ELSE name

field_label(name, desc) ==
    IF desc # None /\ desc[1] # <<>>
    THEN name \o <<" ", "(">> \o desc[1] \o <<")">>
    ELSE name

\* mutant: every Var occurrence adds a field
collect_step_noDedup(fs, token) ==
    IF token.kind = "Var"
    THEN Append(fs, Field(token.name, field_label(token.name, token.desc), <<>>))
    ELSE fs

\* the body of the for loop: one token against the fields collected so far
collect_step(fs, token) ==
    IF token.kind = "Var"
    THEN IF \E i \in 1..Len(fs) : fs[i].name = token.name
         THEN fs
         ELSE Append(fs, Field(token.name, field_label(token.name, token.desc), <<>>))
    ELSE fs

RECURSIVE collect_loop(_, _)
collect_loop(toks, fs) ==
    IF toks = <<>> THEN fs
    ELSE collect_loop(Tail(toks), collect_step(fs, Head(toks)))

collect_fields(toks) == collect_loop(toks, <<>>)

(***************************************************************************)
(* render_template                                                         *)
(***************************************************************************)
\* fields.iter().find(|f| f.name == name).map(|f| f.value).unwrap_or("")
RECURSIVE field_value(_, _)
field_value(fs, name) ==
    IF fs = <<>> THEN <<>>
    ELSE IF Head(fs).name = name THEN Head(fs).value
    ELSE field_value(Tail(fs), name)

\* mutant: the test for an empty value is inverted
render_token_inverted(token, fs) ==
    IF token.kind = "Text" THEN token.text
    ELSE IF token.kind = "Var"
    THEN LET value == field_value(fs, token.name) IN
         IF value # <<>> THEN token.raw ELSE value
    ELSE IF token.choice = <<>> THEN token.raw ELSE token.choice

\* mutant: an unfilled variable is dropped from the output
render_token_dropsUnfilled(token, fs) ==
    IF token.kind = "Text" THEN token.text
    ELSE IF token.kind = "Var" THEN field_value(fs, token.name)
    ELSE IF token.choice = <<>> THEN token.raw ELSE token.choice

render_token(token, fs) ==
    IF token.kind = "Text" THEN token.text
    ELSE IF token.kind = "Var"
    THEN LET value == field_value(fs, token.name) IN
         IF value = <<>> THEN token.raw ELSE value
    ELSE IF token.choice = <<>> THEN token.raw ELSE token.choice

RECURSIVE render_template(_, _)
render_template(toks, fs) ==
    IF toks = <<>> THEN <<>>
    ELSE render_token(Head(toks), fs) \o render_template(Tail(toks), fs)

(***************************************************************************)
(* Inputs of the parser: bodies built from at most MaxPieces pieces, each  *)
(* a single character of the placeholder syntax or a placeholder fragment. *)
(***************************************************************************)
Pieces ==
    { <<"{">>, <<"}">>, <<"|">>, <<" ">>, <<"a">>, <<"b">>, <<"\"">>, <<",">>,
      RandomPrefix,
      <<"{">> \o RandomPrefix,
      <<"\"", "\"">>,
      <<"{">> \o RandomPrefix \o <<"a", " ", "b", "}">>,
      <<"{", "a", "}">>,
      <<"{", "a", "|", "b", "}">>,
      <<"{", "b", "|", " ">>,
      <<"{", " ", "a">>,
      <<"{", "|", "b">>,
      <<"{", " ", "|", "b">>,
      <<"\"", "a", "\"", " ", "\"", "b", "\"">>,
      <<",", " ", "a", " ", ",">> }

Bodies == {Concat(ps) : ps \in UNION {[1..n -> Pieces] : n \in 0..MaxPieces}}

(***************************************************************************)
(* Parser specification: a body is tokenized, its fields are collected and *)
(* the template is rendered with every field left empty, as                *)
(* EditorState::new and the preview do when a template is opened.          *)
(***************************************************************************)
InitParser ==
    /\ NoApp
    /\ source = <<>>
    /\ random_spec = <<>>
    /\ random_options = <<>>
    /\ tree_templates = <<>>
    /\ tree_result = <<>>
    /\ body \in Bodies
    /\ tokens = <<>>
    /\ fields = <<>>
    /\ output = <<>>
    /\ pc = "body"

Tokenize ==
    /\ pc = "body"
    /\ \E toks \in parse_tokens(body) : tokens' = toks
    /\ pc' = "tokens"
    /\ UNCHANGED <<body, fields, output, tree_vars, app_vars, source, random_vars>>

CollectFields ==
    /\ pc = "tokens"
    /\ fields' = collect_fields(tokens)
    /\ pc' = "fields"
    /\ UNCHANGED <<body, tokens, output, tree_vars, app_vars, source, random_vars>>

Render ==
    /\ pc = "fields"
    /\ output' = render_template(tokens, fields)
    /\ pc' = "rendered"
    /\ UNCHANGED <<body, tokens, fields, tree_vars, app_vars, source, random_vars>>

NextParser == Tokenize \/ CollectFields \/ Render

SpecParser == InitParser /\ [][NextParser]_vars

(***************************************************************************)
(* Properties of the parser                                                *)
(***************************************************************************)
Tokenized == pc \in {"tokens", "fields", "rendered"}
Collected == pc \in {"fields", "rendered"}

HasKind(toks, kind) == \E i \in 1..Len(toks) : toks[i].kind = kind
HasChar(s, c) == \E i \in 1..Len(s) : s[i] = c
AllWhitespace(s) == \A i \in 1..Len(s) : IsWhitespace(s[i])

\* the part of the body a token stands for
SourceSpan(token) == IF token.kind = "Text" THEN token.text ELSE token.raw

RECURSIVE SourceSpans(_)
SourceSpans(toks) ==
    IF toks = <<>> THEN <<>> ELSE SourceSpan(Head(toks)) \o SourceSpans(Tail(toks))

\* the body is one {...} span: the text between its first and last character
IsSingleSpan(b) ==
    /\ Len(b) >= 2
    /\ b[1] = "{"
    /\ b[Len(b)] = "}"
    /\ \A i \in 2..(Len(b) - 1) : b[i] # "}"
InnerText(b) == SubSeq(b, 2, Len(b) - 1)

\* C1: a body whose tokens are only Text and Var renders, with every field
\* left empty, to a string identical to the body.
C1_RoundTrip ==
    (pc = "rendered" /\ ~HasKind(tokens, "Random")) => output = body

C1_Witness ==
    /\ pc = "rendered"
    /\ ~HasKind(tokens, "Random")
    /\ HasKind(tokens, "Var")
    /\ HasKind(tokens, "Text")
    /\ output = body

\* C2: for every body, the Text contents and the raw spans of the Var and
\* Random tokens, concatenated in token order, are exactly the body.
C2_TokenCoverage == Tokenized => SourceSpans(tokens) = body

C2_Witness ==
    /\ Tokenized
    /\ HasKind(tokens, "Random")
    /\ HasKind(tokens, "Text")
    /\ Len(tokens) >= 3
    /\ SourceSpans(tokens) = body

\* 1-based position of the first Var token called name
FirstVar(toks, name) ==
    CHOOSE i \in 1..Len(toks) :
        /\ toks[i].kind = "Var" /\ toks[i].name = name
        /\ \A j \in 1..(i - 1) : ~(toks[j].kind = "Var" /\ toks[j].name = name)

ExpectedLabel(token) ==
    IF token.desc = None \/ token.desc = Some(<<>>)
    THEN token.name
    ELSE token.name \o <<" ", "(">> \o token.desc[1] \o <<")">>

\* C4: one Field per distinct Var name, in first-occurrence order, with an
\* empty value and the label of the first occurrence; {x}{x|desc} gives one
\* field x labelled x.
C4_FieldsDistinctFirstOccurrence ==
    Collected =>
        /\ \A i, j \in 1..Len(fields) : fields[i].name = fields[j].name => i = j
        /\ {fields[i].name : i \in 1..Len(fields)}
             = {tokens[k].name : k \in {n \in 1..Len(tokens) : tokens[n].kind = "Var"}}
        /\ \A i, j \in 1..Len(fields) :
             i < j => FirstVar(tokens, fields[i].name) < FirstVar(tokens, fields[j].name)
        /\ \A i \in 1..Len(fields) :
             /\ fields[i].value = <<>>
             /\ fields[i].label = ExpectedLabel(tokens[FirstVar(tokens, fields[i].name)])
        /\ body = <<"{", "a", "}", "{", "a", "|", "b", "}">> => fields = <<Field(<<"a">>, <<"a">>, <<>>)>>

C4_Witness ==
    /\ Collected
    /\ body = <<"{", "a", "}", "{", "a", "|", "b", "}">>
    /\ Len(tokens) = 2
    /\ Len(fields) = 1

\* the malformed placeholders {}, {|desc} and {random|}, also padded with
\* whitespace around the inner text
IsMalformed(b) ==
    /\ IsSingleSpan(b)
    /\ LET inner == InnerText(b) IN
       \/ AllWhitespace(inner)
       \/ \E k \in 1..Len(inner) :
            /\ AllWhitespace(SubSeq(inner, 1, k - 1))
            /\ \/ inner[k] = "|"
               \/ /\ k + 6 <= Len(inner)
                  /\ \A n \in 1..7 : inner[k + n - 1] = RandomPrefix[n]
                  /\ AllWhitespace(SubSeq(inner, k + 7, Len(inner)))

\* C7: a malformed placeholder is tokenized to a single Text token equal to
\* the original span; no Var or Random token is produced.
C7_MalformedIsText == (Tokenized /\ IsMalformed(body)) => tokens = <<Text(body)>>

\* the padded {|desc} form with a description: { |b }
C7_Witness ==
    /\ Tokenized
    /\ IsMalformed(body)
    /\ body = <<"{", " ", "|", "b", " ", "}">>
    /\ tokens = <<Text(body)>>

\* C8 as stated: every body without "{", the empty one included, gives
\* exactly one Text token equal to the body.
C8_Original == (Tokenized /\ ~HasChar(body, "{")) => tokens = <<Text(body)>>

\* C8 amended: a non-empty body without "{" gives exactly one Text token
\* equal to the body; the empty body gives no token at all.
C8_NoBraceOneText ==
    (Tokenized /\ ~HasChar(body, "{")) =>
        tokens = IF body = <<>> THEN <<>> ELSE <<Text(body)>>

C8_Witness ==
    /\ Tokenized
    /\ ~HasChar(body, "{")
    /\ Len(body) >= 2
    /\ tokens = <<Text(body)>>

\* the body is exactly {name}: name has no "|", "{" or "}" and is not blank
IsPlainVar(b) ==
    /\ IsSingleSpan(b)
    /\ \A i \in 1..Len(InnerText(b)) : InnerText(b)[i] \notin {"|", "{", "}"}
    /\ ~AllWhitespace(InnerText(b))

\* the name without its surrounding whitespace
Stripped(s) ==
    LET first == CHOOSE i \in 1..Len(s) :
                    ~IsWhitespace(s[i]) /\ \A j \in 1..(i - 1) : IsWhitespace(s[j])
        last  == CHOOSE i \in 1..Len(s) :
                    ~IsWhitespace(s[i]) /\ \A j \in (i + 1)..Len(s) : IsWhitespace(s[j])
    IN IF AllWhitespace(s) THEN <<>> ELSE SubSeq(s, first, last)

\* C9: a body that is exactly {name} gives one Var token with the trimmed
\* name, no description and the whole body as raw span.
C9_PlainVar ==
    (Tokenized /\ IsPlainVar(body)) =>
        tokens = <<Var(Stripped(InnerText(body)), None, body)>>

C9_Witness ==
    /\ Tokenized
    /\ IsPlainVar(body)
    /\ IsWhitespace(body[2])
    /\ tokens = <<Var(Stripped(InnerText(body)), None, body)>>

\* the body is exactly {name|desc} with a non-blank name that does not make
\* it a random placeholder
IsDescribedVar(b) ==
    /\ IsSingleSpan(b)
    /\ HasChar(InnerText(b), "|")
    /\ LET inner == InnerText(b)
           bar == CHOOSE k \in 1..Len(inner) :
                     inner[k] = "|" /\ \A j \in 1..(k - 1) : inner[j] # "|"
       IN /\ ~AllWhitespace(SubSeq(inner, 1, bar - 1))
          /\ Stripped(SubSeq(inner, 1, bar - 1)) # <<"r", "a", "n", "d", "o", "m">>

NamePart(b) ==
    LET inner == InnerText(b)
        bar == CHOOSE k \in 1..Len(inner) :
                  inner[k] = "|" /\ \A j \in 1..(k - 1) : inner[j] # "|"
    IN Stripped(SubSeq(inner, 1, bar - 1))

DescPart(b) ==
    LET inner == InnerText(b)
        bar == CHOOSE k \in 1..Len(inner) :
                  inner[k] = "|" /\ \A j \in 1..(k - 1) : inner[j] # "|"
    IN Stripped(SubSeq(inner, bar + 1, Len(inner)))

\* C10: a field's label is "name (description)" when the first Var of that
\* name has a non-empty description, both trimmed, and "name" when the
\* description is absent or empty.
C10_Label ==
    Collected =>
        /\ \A i \in 1..Len(fields) :
             fields[i].label = ExpectedLabel(tokens[FirstVar(tokens, fields[i].name)])
        /\ IsPlainVar(body) =>
             fields = <<Field(Stripped(InnerText(body)), Stripped(InnerText(body)), <<>>)>>
        /\ IsDescribedVar(body) =>
             fields = <<Field(NamePart(body),
                              IF DescPart(body) = <<>> THEN NamePart(body)
                              ELSE NamePart(body) \o <<" ", "(">> \o DescPart(body) \o <<")">>,
                              <<>>)>>

C10_Witness ==
    /\ Collected
    /\ IsDescribedVar(body)
    /\ IsWhitespace(body[2])
    /\ DescPart(body) # <<>>
    /\ Len(fields) = 1
    /\ fields[1].label = NamePart(body) \o <<" ", "(">> \o DescPart(body) \o <<")">>

(***************************************************************************)
(* Title tree builder: build_tree_items, TreeNode                          *)
(***************************************************************************)
Template(name, b) == [name |-> name, body |-> b]
TreeItem(label, depth, template_index) ==
    [label |-> label, depth |-> depth, template_index |-> template_index]

\* TreeNode::new
TreeNode(name) == [name |-> name, template_index |-> None, children |-> <<>>]

RECURSIVE SplitLoop(_, _, _, _)
SplitLoop(s, c, cur, acc) ==
    IF s = <<>> THEN Append(acc, cur)
    ELSE IF Head(s) = c THEN SplitLoop(Tail(s), c, <<>>, Append(acc, cur))
    ELSE SplitLoop(Tail(s), c, Append(cur, Head(s)), acc)

\* str::split(char): the parts between the separators, empty ones included
Split(s, c) == SplitLoop(s, c, <<>>, <<>>)

RECURSIVE TrimNonEmpty(_)
TrimNonEmpty(parts) ==
    IF parts = <<>> THEN <<>>
    ELSE LET part == Trim(Head(parts)) IN
         IF part # <<>> THEN <<part>> \o TrimNonEmpty(Tail(parts))
         ELSE TrimNonEmpty(Tail(parts))

\* mutant: the segments left empty are kept
path_parts_keepsEmpty(name) ==
    LET parts == Split(name, "/") IN [i \in 1..Len(parts) |-> Trim(parts[i])]

\* name.split('/').map(trim).filter(non-empty)
path_parts(name) == TrimNonEmpty(Split(name, "/"))

\* children.iter_mut().find(|child| child.name == part): 1-based position, 0 if none
find_child(children, part) ==
    IF \E i \in 1..Len(children) : children[i].name = part
    THEN CHOOSE i \in 1..Len(children) :
            /\ children[i].name = part
            /\ \A j \in 1..(i - 1) : children[j].name # part
    ELSE 0

\* mutant: a new child is put in front of its siblings
RECURSIVE insert_front(_, _, _)
insert_front(node, parts, template_index) ==
    IF parts = <<>> THEN [node EXCEPT !.template_index = Some(template_index)]
    ELSE LET part == Head(parts)
             at == find_child(node.children, part)
         IN IF at # 0
            THEN [node EXCEPT !.children[at] = insert_front(@, Tail(parts), template_index)]
            ELSE [node EXCEPT !.children =
                     <<insert_front(TreeNode(part), Tail(parts), template_index)>> \o @]

\* mutant: a node keeps the index of the first template of its path
RECURSIVE insert_keepsFirst(_, _, _)
insert_keepsFirst(node, parts, template_index) ==
    IF parts = <<>>
    THEN IF node.template_index = None
         THEN [node EXCEPT !.template_index = Some(template_index)]
         ELSE node
    ELSE LET part == Head(parts)
             at == find_child(node.children, part)
         IN IF at # 0
            THEN [node EXCEPT !.children[at] = insert_keepsFirst(@, Tail(parts), template_index)]
            ELSE [node EXCEPT !.children =
                     Append(@, insert_keepsFirst(TreeNode(part), Tail(parts), template_index))]

\* TreeNode::insert
RECURSIVE insert(_, _, _)
insert(node, parts, template_index) ==
    IF parts = <<>> THEN [node EXCEPT !.template_index = Some(template_index)]
    ELSE LET part == Head(parts)
             at == find_child(node.children, part)
         IN IF at # 0
            THEN [node EXCEPT !.children[at] = insert(@, Tail(parts), template_index)]
            ELSE [node EXCEPT !.children =
                     Append(@, insert(TreeNode(part), Tail(parts), template_index))]

\* TreeNode::flatten
RECURSIVE flatten(_, _)
RECURSIVE flatten_children(_, _)
flatten_children(children, depth) ==
    IF children = <<>> THEN <<>>
    ELSE LET child == Head(children) IN
         <<TreeItem(child.name, depth, child.template_index)>>
           \o flatten(child, depth + 1)
           \o flatten_children(Tail(children), depth)

flatten(node, depth) == flatten_children(node.children, depth)

\* the for loop of build_tree_items: templates[index..] inserted into root
RECURSIVE insert_all(_, _, _)
insert_all(root, tpls, index) ==
    IF index >= Len(tpls) THEN root
    ELSE insert_all(insert(root, path_parts(tpls[index + 1].name), index),
                    tpls, index + 1)

build_tree_items(tpls) == flatten(insert_all(TreeNode(<<>>), tpls, 0), 0)

(***************************************************************************)
(* Tree specification: a list of at most MaxTemplates templates, named     *)
(* from a fixed set of titles, is turned into tree items.                  *)
(***************************************************************************)
Names ==
    { <<"A">>,
      <<"B">>,
      <<"A", "/", "B">>,
      <<"A", "/", "C">>,
      <<"B", "/", "A">>,
      <<"A", "/", "B", "/", "C">>,
      <<"A", "/", "/", "B">>,
      <<" ", "A", " ", "/", " ", "C", " ">>,
      <<"/">> }

TemplateLists ==
    UNION {[1..n -> {Template(name, <<>>) : name \in Names}] : n \in 0..MaxTemplates}

InitTree ==
    /\ NoApp
    /\ source = <<>>
    /\ random_spec = <<>>
    /\ random_options = <<>>
    /\ body = <<>>
    /\ tokens = <<>>
    /\ fields = <<>>
    /\ output = <<>>
    /\ tree_templates \in TemplateLists
    /\ tree_result = <<>>
    /\ pc = "templates"

BuildTree ==
    /\ pc = "templates"
    /\ tree_result' = build_tree_items(tree_templates)
    /\ pc' = "tree"
    /\ UNCHANGED <<tree_templates, parser_vars, app_vars, source, random_vars>>

NextTree == BuildTree

SpecTree == InitTree /\ [][NextTree]_vars

(***************************************************************************)
(* Properties of the tree builder                                          *)
(***************************************************************************)
\* path of template i (0-based)
PathOf(i) == path_parts(tree_templates[i + 1].name)
TemplateIds == 0..(Len(tree_templates) - 1)
IsPrefix(p, q) == Len(p) <= Len(q) /\ SubSeq(q, 1, Len(p)) = p

\* the trie nodes: every non-empty prefix of a template's path
TrieNodes ==
    {SubSeq(PathOf(i), 1, n) : <<i, n>> \in
        {<<i, n>> \in TemplateIds \X (1..8) : n <= Len(PathOf(i))}}

\* the template that first introduced node p
IntroducedBy(p) ==
    CHOOSE i \in TemplateIds :
        IsPrefix(p, PathOf(i)) /\ \A j \in 0..(i - 1) : ~IsPrefix(p, PathOf(j))

\* pre-order with siblings in order of first creation
PreOrderBefore(p, q) ==
    \/ Len(p) < Len(q) /\ IsPrefix(p, q)
    \/ \E k \in 1..Len(p) :
         /\ k <= Len(q)
         /\ SubSeq(p, 1, k - 1) = SubSeq(q, 1, k - 1)
         /\ p[k] # q[k]
         /\ IntroducedBy(SubSeq(p, 1, k)) < IntroducedBy(SubSeq(q, 1, k))

\* the index recorded on node p: the last template addressing exactly p
IndexOn(p) ==
    LET at == {i \in TemplateIds : PathOf(i) = p} IN
    IF at = {} THEN None ELSE Some(CHOOSE i \in at : \A j \in at : j <= i)

RECURSIVE ExpectedItems(_)
ExpectedItems(nodes) ==
    IF nodes = {} THEN <<>>
    ELSE LET p == CHOOSE p \in nodes : \A q \in nodes \ {p} : PreOrderBefore(p, q) IN
         <<TreeItem(p[Len(p)], Len(p) - 1, IndexOn(p))>> \o ExpectedItems(nodes \ {p})

NamesOf(tpls) == [i \in 1..Len(tpls) |-> tpls[i].name]

\* C6: one TreeItem per trie node, in pre-order with children in order of
\* first creation, depth 0 at the top and one more per level; A/B, A/C gives
\* [A(0, none), B(1, 0), C(1, 1)]; A before A/B puts index 0 on A and keeps B
\* as its child; later-introduced siblings come later even when that is not
\* alphabetical.
C6_TreePreOrder ==
    pc = "tree" =>
        /\ tree_result = ExpectedItems(TrieNodes)
        /\ NamesOf(tree_templates) = <<<<"A", "/", "B">>, <<"A", "/", "C">>>> =>
             tree_result = <<TreeItem(<<"A">>, 0, None),
                             TreeItem(<<"B">>, 1, Some(0)),
                             TreeItem(<<"C">>, 1, Some(1))>>
        /\ NamesOf(tree_templates) = <<<<"A">>, <<"A", "/", "B">>>> =>
             tree_result = <<TreeItem(<<"A">>, 0, Some(0)),
                             TreeItem(<<"B">>, 1, Some(1))>>
        /\ NamesOf(tree_templates) = <<<<"A", "/", "C">>, <<"A", "/", "B">>>> =>
             tree_result = <<TreeItem(<<"A">>, 0, None),
                             TreeItem(<<"C">>, 1, Some(0)),
                             TreeItem(<<"B">>, 1, Some(1))>>

C6_Witness ==
    /\ pc = "tree"
    /\ NamesOf(tree_templates) = <<<<"B", "/", "A">>, <<"A", "/", "C">>, <<"A", "/", "B">>>>
    /\ tree_result = <<TreeItem(<<"B">>, 0, None),
                       TreeItem(<<"A">>, 1, Some(0)),
                       TreeItem(<<"A">>, 0, None),
                       TreeItem(<<"C">>, 1, Some(1)),
                       TreeItem(<<"B">>, 1, Some(2))>>

(***************************************************************************)
(* Heading splitter: parse_templates, parse_heading, trim_trailing_newline *)
(***************************************************************************)
StripSuffix(s, c) ==
    IF s # <<>> /\ s[Len(s)] = c THEN SubSeq(s, 1, Len(s) - 1) ELSE s

\* str::lines(): split at "\n", a "\r" before the "\n" removed, no empty
\* last line after a final "\n"
RECURSIVE LinesLoop(_, _, _)
LinesLoop(s, cur, acc) ==
    IF s = <<>> THEN (IF cur = <<>> THEN acc ELSE Append(acc, cur))
    ELSE IF Head(s) = "\n"
         THEN LinesLoop(Tail(s), <<>>, Append(acc, StripSuffix(cur, "\r")))
         ELSE LinesLoop(Tail(s), Append(cur, Head(s)), acc)

Lines(s) == LinesLoop(s, <<>>, <<>>)

\* mutant: no blank is needed after the ##
parse_heading_noBlank(line) ==
    LET rest == StripPrefix(line, <<"#", "#">>) IN
    IF rest = None THEN None
    ELSE LET title == Trim(rest[1]) IN
         IF title = <<>> THEN None ELSE Some(title)

parse_heading(line) ==
    LET rest == StripPrefix(line, <<"#", "#">>) IN
    IF rest = None THEN None
    ELSE IF ~(StartsWith(rest[1], <<" ">>) \/ StartsWith(rest[1], <<"\t">>)) THEN None
    ELSE LET title == Trim(rest[1]) IN
         IF title = <<>> THEN None ELSE Some(title)

trim_trailing_newline(input) == StripSuffix(StripSuffix(input, "\n"), "\r")

\* the for loop of parse_templates followed by the push of the last section
RECURSIVE parse_templates_loop(_, _, _, _)
parse_templates_loop(lines, current_title, text, tpls) ==
    IF lines = <<>>
    THEN IF current_title # None
         THEN Append(tpls, Template(current_title[1], trim_trailing_newline(text)))
         ELSE tpls
    ELSE LET title == parse_heading(Head(lines)) IN
         IF title # None
         THEN IF current_title # None
              THEN parse_templates_loop(Tail(lines), title, <<>>,
                       Append(tpls, Template(current_title[1], trim_trailing_newline(text))))
              ELSE parse_templates_loop(Tail(lines), title, text, tpls)
         ELSE IF current_title # None
              THEN parse_templates_loop(Tail(lines), current_title,
                                        text \o Head(lines) \o <<"\n">>, tpls)
              ELSE parse_templates_loop(Tail(lines), current_title, text, tpls)

parse_templates(content) == parse_templates_loop(Lines(content), None, <<>>, <<>>)

(***************************************************************************)
(* Template source: load_templates, ensure_prompts_file (src/src/system.rs)*)
(* The file system is an input of every call: whether the home directory   *)
(* is known, whether prompts.md exists, can be created, can be read, and   *)
(* what it contains.  Error texts are abbreviated to ASCII.                *)
(***************************************************************************)
\* DEFAULT_PROMPTS with every run of literal text shortened to one ASCII letter
DEFAULT_PROMPTS ==
    <<"#", "#", " ", "E", "/", "G", "\n", "w", " ", "{", "n", "|", "r",
      "}", " ", "{", "t", "|", "s", "}", ".", "\n", "\n", "#", "#", " ",
      "E", "/", "R", "/", "C", "\n", "p", " ", "{", "a", "|", "m", "}",
      ",", "l", " ", "{", "r", "a", "n", "d", "o", "m", "|", "\"", "s",
      "\"", " ", "\"", "p", "\"", " ", "\"", "u", "\"", "}", " ", "r",
      ".", "\n">>

\* a file with one template that uses a variable twice
PromptsRepeated ==
    <<"#", "#", " ", "A", "\n", "{", "x", "}", "-", "{", "x", "|",
      "d", "}", "\n">>

\* a file without any heading
PromptsNoHeading ==
    <<"#", "A", "\n", "{", "x", "}", "\n">>

\* a file with one template that has no placeholder
PromptsPlain ==
    <<"#", "#", " ", "B", "\n", "t", "\n">>

Contents == {DEFAULT_PROMPTS, PromptsRepeated, PromptsNoHeading, PromptsPlain}

FileEnv(home, exists, can_create, readable, content) ==
    [home |-> home, exists |-> exists, can_create |-> can_create,
     readable |-> readable, content |-> content]

Envs ==
    {FileEnv(TRUE, FALSE, FALSE, FALSE, <<>>),
     FileEnv(TRUE, FALSE, TRUE, TRUE, <<>>),
     FileEnv(TRUE, TRUE, FALSE, FALSE, <<>>)}
    \cup {FileEnv(TRUE, TRUE, FALSE, TRUE, c) : c \in Contents}

Ok(value) == [ok |-> TRUE, value |-> value]
Err(text) == [ok |-> FALSE, value |-> text]

ensure_prompts_file_noCreate(env) ==
    IF ~env.home THEN Err("no user directory")
    ELSE IF env.exists THEN Ok(env.content)
    ELSE Err("create failed")

\* Ok(the content of prompts.md after the call) or Err
ensure_prompts_file(env) ==
    IF ~env.home THEN Err("no user directory")
    ELSE IF env.exists THEN Ok(env.content)
    ELSE IF ~env.can_create THEN Err("create failed")
    ELSE Ok(DEFAULT_PROMPTS)

load_templates(env) ==
    LET path == ensure_prompts_file(env) IN
    IF ~path.ok THEN path
    ELSE IF ~env.readable THEN Err("read failed")
    ELSE LET tpls == parse_templates(path.value) IN
         IF tpls = <<>> THEN Err("no templates found") ELSE Ok(tpls)

(***************************************************************************)
(* EditorState (src/src/app.rs)                                            *)
(***************************************************************************)
\* EditorState::new, for one outcome toks of parse_tokens(body)
EditorState(template_index, toks) ==
    [template_index |-> template_index,
     tokens |-> toks,
     fields |-> collect_fields(toks),
     active_field |-> 0,
     field_scroll |-> 0,
     status |-> None]

\* mutant: the field after the last one is the last one
next_field_stops(ed) ==
    IF ed.fields = <<>> THEN ed
    ELSE [ed EXCEPT !.active_field =
             IF @ + 1 < Len(ed.fields) THEN @ + 1 ELSE Len(ed.fields) - 1]

next_field(ed) ==
    IF ed.fields = <<>> THEN ed
    ELSE [ed EXCEPT !.active_field = (ed.active_field + 1) % Len(ed.fields)]

prev_field(ed) ==
    IF ed.fields = <<>> THEN ed
    ELSE IF ed.active_field = 0
         THEN [ed EXCEPT !.active_field = Len(ed.fields) - 1]
         ELSE [ed EXCEPT !.active_field = ed.active_field - 1]

push_char(ed, ch) ==
    IF ed.active_field < Len(ed.fields)
    THEN [ed EXCEPT !.fields[ed.active_field + 1].value = Append(@, ch)]
    ELSE ed

backspace(ed) ==
    IF ed.active_field < Len(ed.fields)
    THEN [ed EXCEPT !.fields[ed.active_field + 1].value =
              IF @ = <<>> THEN @ ELSE SubSeq(@, 1, Len(@) - 1)]
    ELSE ed

set_status(ed, text) == [ed EXCEPT !.status = Some(text)]

\* mutant: a reroll resets the choice instead of drawing one
reroll_outcomes_reset(token) ==
    IF token.kind = "Random"
    THEN {[token EXCEPT !.choice = <<>>]}
    ELSE {token}

\* the tokens one token can become in reroll_random
reroll_outcomes(token) ==
    IF token.kind = "Random" /\ token.options # <<>>
    THEN {[token EXCEPT !.choice = token.options[i]] : i \in 1..Len(token.options)}
    ELSE {token}

\* the for loop of reroll_random: every outcome for every token
RECURSIVE reroll_tokens(_)
reroll_tokens(toks) ==
    IF toks = <<>> THEN {<<>>}
    ELSE {<<first>> \o rest : first \in reroll_outcomes(Head(toks)),
                              rest \in reroll_tokens(Tail(toks))}

\* the editor states reroll_random can produce
reroll_random(ed) ==
    {set_status([ed EXCEPT !.tokens = toks], "rerolled") : toks \in reroll_tokens(ed.tokens)}

(***************************************************************************)
(* Drawing, the ui that run_app calls (src/src/main.rs): the parts that    *)
(* write application state                                                 *)
(***************************************************************************)
TermSizes == {<<4, 5>>}

Min(a, b) == IF a < b THEN a ELSE b

inner_rect(area) ==
    LET w == IF area.width >= 2
             THEN [area EXCEPT !.x = @ + 1, !.width = @ - 2] ELSE area
    IN IF w.height >= 2 THEN [w EXCEPT !.y = @ + 1, !.height = @ - 2] ELSE w

ensure_visible(current_scroll, selected, total, view_height) ==
    IF total = 0 \/ view_height = 0 THEN 0
    ELSE LET scroll == Min(current_scroll, total - 1) IN
         IF selected < scroll THEN selected
         ELSE IF selected >= scroll + view_height THEN selected + 1 - view_height
         ELSE scroll

\* Layout [Fill(1), Length(1)]: everything but the last row
content_area(size) ==
    Rect(0, 0, size[1], IF size[2] >= 1 THEN size[2] - 1 ELSE 0)

unwrap_or(opt, default) == IF opt = None THEN default ELSE opt[1]

render_list(size) ==
    LET inner == inner_rect(content_area(size)) IN
    /\ tree_area' = inner
    /\ list_scroll' = ensure_visible(list_scroll, unwrap_or(list_state, 0),
                                     Len(tree_items), inner.height)
    /\ preview' = None
    /\ UNCHANGED editor

render_editor(size) ==
    IF editor = None THEN UNCHANGED <<editor, preview, tree_area, list_scroll>>
    ELSE LET ed == editor[1]
             inner == inner_rect(content_area(size))
             view_height == inner.height
         IN /\ editor' = Some([ed EXCEPT !.field_scroll =
                   ensure_visible(ed.field_scroll, ed.active_field,
                                  Len(ed.fields), view_height)])
            /\ preview' = Some(render_template(ed.tokens, ed.fields))
            /\ UNCHANGED <<tree_area, list_scroll>>

render_error == preview' = None /\ UNCHANGED <<editor, tree_area, list_scroll>>

(***************************************************************************)
(* App (src/src/app.rs) and the main loop                                  *)
(***************************************************************************)
DOUBLE_CLICK_MS == 400

TypedChars == {"z"}
MouseColumns == {0, 1}
MouseRows == 0..3
Elapsed == {DOUBLE_CLICK_MS, DOUBLE_CLICK_MS + 1}

NoHarness ==
    /\ body = <<>>
    /\ tokens = <<>>
    /\ fields = <<>>
    /\ output = <<>>
    /\ tree_templates = <<>>
    /\ tree_result = <<>>
    /\ source = <<>>
    /\ random_spec = <<>>
    /\ random_options = <<>>

\* the selection of a fresh ListState over items
first_selected(items) == IF items # <<>> THEN Some(0) ELSE None

\* App::load, followed by the entry into the loop of run_app
Init ==
    /\ NoHarness
    /\ pc = "draw"
    /\ \E env \in Envs :
         LET loaded == load_templates(env) IN
         IF loaded.ok
         THEN /\ templates = loaded.value
              /\ tree_items = build_tree_items(loaded.value)
              /\ list_state = first_selected(build_tree_items(loaded.value))
              /\ view = "List"
              /\ error_message = None
         ELSE /\ templates = <<>>
              /\ tree_items = <<>>
              /\ list_state = None
              /\ view = "Error"
              /\ error_message = Some(loaded.value)
    /\ list_scroll = 0
    /\ editor = None
    /\ last_click = None
    /\ tree_area = Rect(0, 0, 0, 0)
    /\ should_quit = FALSE
    /\ list_status = None
    /\ needs_redraw = FALSE
    /\ preview = None

list_vars == <<templates, tree_items, list_state, list_scroll, last_click,
               tree_area, list_status, needs_redraw, error_message>>

\* terminal.draw(ui) and the test of should_quit
Draw ==
    /\ pc = "draw"
    /\ \E size \in TermSizes :
         CASE view = "List" -> render_list(size)
           [] view = "Editor" -> render_editor(size)
           [] view = "Error" -> render_error
    /\ pc' = IF should_quit THEN "exit" ELSE "event"
    /\ UNCHANGED <<templates, tree_items, list_state, view, error_message,
                   last_click, should_quit, list_status, needs_redraw,
                   parser_vars, tree_vars, source, random_vars>>

\* an event that is handled: back to the top of the loop
Handled ==
    pc = "event" /\ pc' = "draw" /\ UNCHANGED <<parser_vars, tree_vars, source, random_vars>>

\* no event within the tick, a resize, a key without binding, or a mouse
\* event outside the list view
Idle ==
    /\ Handled
    /\ UNCHANGED app_vars

\* mutant: Esc in the error view goes to the list view
KeyQuit_leavesError ==
    /\ Handled
    /\ view \in {"List", "Error"}
    /\ IF view = "Error"
       THEN view' = "List" /\ UNCHANGED should_quit
       ELSE should_quit' = TRUE /\ UNCHANGED view
    /\ UNCHANGED <<list_vars, editor, preview>>

\* on_key_error and on_key_list: q or Esc
KeyQuit ==
    /\ Handled
    /\ view \in {"List", "Error"}
    /\ should_quit' = TRUE
    /\ UNCHANGED <<list_vars, view, editor, preview>>

\* mutant: the selection wraps around the ends of the list
move_list_wraps(delta) ==
    LET len == Len(tree_items) IN
    IF len = 0 THEN UNCHANGED list_state
    ELSE LET current == unwrap_or(list_state, 0)
         IN list_state' = Some((current + delta + len) % len)

move_list(delta) ==
    LET len == Len(tree_items) IN
    IF len = 0 THEN UNCHANGED list_state
    ELSE LET current == unwrap_or(list_state, 0)
             moved == current + delta
             next == IF moved < 0 THEN 0 ELSE IF moved > len - 1 THEN len - 1 ELSE moved
         IN list_state' = Some(next)

\* on_key_list: Down, j, Up, k
KeyMove ==
    /\ Handled
    /\ view = "List"
    /\ \E delta \in {1, -1} : move_list(delta)
    /\ UNCHANGED <<templates, tree_items, list_scroll, last_click, tree_area,
                   list_status, needs_redraw, error_message, view, editor,
                   should_quit, preview>>

\* mutant: opening the template of the kept session resumes that session
open_selected_template_resume(sel) ==
    IF sel = None THEN {<<view, editor>>}
    ELSE IF ~(sel[1] < Len(tree_items)) \/ tree_items[sel[1] + 1].template_index = None
    THEN {<<view, editor>>}
    ELSE LET template_index == tree_items[sel[1] + 1].template_index[1] IN
         IF ~(template_index < Len(templates)) THEN {<<view, editor>>}
         ELSE IF editor # None /\ editor[1].template_index = template_index
              THEN {<<"Editor", editor>>}
         ELSE {<<"Editor", Some(EditorState(template_index, toks))>> :
                  toks \in parse_tokens(templates[template_index + 1].body)}

\* mutant: an item without template opens the first template
open_selected_template_folder(sel) ==
    IF sel = None THEN {<<view, editor>>}
    ELSE IF ~(sel[1] < Len(tree_items))
    THEN {<<view, editor>>}
    ELSE LET template_index == unwrap_or(tree_items[sel[1] + 1].template_index, 0) IN
         IF ~(template_index < Len(templates)) THEN {<<view, editor>>}
         ELSE {<<"Editor", Some(EditorState(template_index, toks))>> :
                  toks \in parse_tokens(templates[template_index + 1].body)}

\* open_selected_template with selection sel: the (view, editor) pairs it can leave
open_selected_template(sel) ==
    IF sel = None THEN {<<view, editor>>}
    ELSE IF ~(sel[1] < Len(tree_items)) \/ tree_items[sel[1] + 1].template_index = None
    THEN {<<view, editor>>}
    ELSE LET template_index == tree_items[sel[1] + 1].template_index[1] IN
         IF ~(template_index < Len(templates)) THEN {<<view, editor>>}
         ELSE {<<"Editor", Some(EditorState(template_index, toks))>> :
                  toks \in parse_tokens(templates[template_index + 1].body)}

\* mutant: Enter goes back to the session left with Esc
KeyEnter_resumes ==
    /\ Handled
    /\ view = "List"
    /\ IF editor # None
       THEN view' = "Editor" /\ UNCHANGED editor
       ELSE \E opened \in open_selected_template(list_state) :
               view' = opened[1] /\ editor' = opened[2]
    /\ UNCHANGED <<list_vars, should_quit, preview>>

\* on_key_list: Enter
KeyEnter ==
    /\ Handled
    /\ view = "List"
    /\ \E opened \in open_selected_template(list_state) :
         view' = opened[1] /\ editor' = opened[2]
    /\ UNCHANGED <<list_vars, should_quit, preview>>

\* mutant: a reload that fails empties the list
KeyEdit_dropsOnFailure ==
    /\ Handled
    /\ view = "List"
    /\ \/ /\ list_status' = Some("EDITOR not set")
          /\ UNCHANGED <<templates, tree_items, list_state, list_scroll, needs_redraw>>
       \/ \E env \in Envs :
            /\ ~ensure_prompts_file(env).ok
            /\ list_status' = Some(ensure_prompts_file(env).value)
            /\ UNCHANGED <<templates, tree_items, list_state, list_scroll, needs_redraw>>
       \/ /\ list_status' = Some("editor failed")
          /\ UNCHANGED <<templates, tree_items, list_state, list_scroll, needs_redraw>>
       \/ \E env \in Envs :
            LET loaded == load_templates(env) IN
            /\ needs_redraw' = TRUE
            /\ IF loaded.ok
               THEN /\ tree_items' = build_tree_items(loaded.value)
                    /\ templates' = loaded.value
                    /\ list_state' = first_selected(build_tree_items(loaded.value))
                    /\ list_scroll' = 0
                    /\ UNCHANGED list_status
               ELSE /\ list_status' = Some(loaded.value)
                    /\ tree_items' = <<>>
                    /\ templates' = <<>>
                    /\ list_state' = None
                    /\ list_scroll' = 0
    /\ UNCHANGED <<last_click, tree_area, error_message, view, editor,
                   should_quit, preview>>

\* on_key_list: e (open_prompts_in_editor)
KeyEdit ==
    /\ Handled
    /\ view = "List"
    /\ \/ /\ list_status' = Some("EDITOR not set")
          /\ UNCHANGED <<templates, tree_items, list_state, list_scroll, needs_redraw>>
       \/ \E env \in Envs :
            /\ ~ensure_prompts_file(env).ok
            /\ list_status' = Some(ensure_prompts_file(env).value)
            /\ UNCHANGED <<templates, tree_items, list_state, list_scroll, needs_redraw>>
       \/ /\ list_status' = Some("editor failed")
          /\ UNCHANGED <<templates, tree_items, list_state, list_scroll, needs_redraw>>
       \/ \E env \in Envs :
            LET loaded == load_templates(env) IN
            /\ needs_redraw' = TRUE
            /\ IF loaded.ok
               THEN /\ tree_items' = build_tree_items(loaded.value)
                    /\ templates' = loaded.value
                    /\ list_state' = first_selected(build_tree_items(loaded.value))
                    /\ list_scroll' = 0
                    /\ UNCHANGED list_status
               ELSE /\ list_status' = Some(loaded.value)
                    /\ UNCHANGED <<templates, tree_items, list_state, list_scroll>>
    /\ UNCHANGED <<last_click, tree_area, error_message, view, editor,
                   should_quit, preview>>

index_from_mouse(mouse) ==
    LET area == tree_area IN
    IF area.width = 0 \/ area.height = 0 THEN None
    ELSE IF \/ mouse.column < area.x
            \/ mouse.column >= area.x + area.width
            \/ mouse.row < area.y
            \/ mouse.row >= area.y + area.height
    THEN None
    ELSE LET index == list_scroll + (mouse.row - area.y) IN
         IF index >= Len(tree_items) THEN None ELSE Some(index)

\* on_mouse_list for a press of the left button
MouseDown ==
    /\ Handled
    /\ view = "List"
    /\ \E column \in MouseColumns, row \in MouseRows, elapsed \in Elapsed :
         LET index == index_from_mouse([column |-> column, row |-> row]) IN
         IF index = None
         THEN UNCHANGED <<list_state, last_click, view, editor>>
         ELSE /\ list_state' = index
              /\ last_click' = index
              /\ IF last_click = index /\ elapsed <= DOUBLE_CLICK_MS
                 THEN \E opened \in open_selected_template(index) :
                        view' = opened[1] /\ editor' = opened[2]
                 ELSE UNCHANGED <<view, editor>>
    /\ UNCHANGED <<templates, tree_items, list_scroll, tree_area, list_status,
                   needs_redraw, error_message, should_quit, preview>>

\* on_key_editor applies only with an editor
InEditor == Handled /\ view = "Editor" /\ editor # None

EditorEsc ==
    /\ InEditor
    /\ view' = "List"
    /\ UNCHANGED <<list_vars, editor, should_quit, preview>>

EditorNext ==
    /\ InEditor
    /\ editor' = Some(next_field(editor[1]))
    /\ UNCHANGED <<list_vars, view, should_quit, preview>>

EditorPrev ==
    /\ InEditor
    /\ editor' = Some(prev_field(editor[1]))
    /\ UNCHANGED <<list_vars, view, should_quit, preview>>

EditorBackspace ==
    /\ InEditor
    /\ editor' = Some(backspace(editor[1]))
    /\ UNCHANGED <<list_vars, view, should_quit, preview>>

\* a value is typed up to MaxValueLen characters
CanType(ed) ==
    ed.active_field < Len(ed.fields) =>
        Len(ed.fields[ed.active_field + 1].value) < MaxValueLen

EditorChar ==
    /\ InEditor
    /\ CanType(editor[1])
    /\ \E ch \in TypedChars : editor' = Some(push_char(editor[1], ch))
    /\ UNCHANGED <<list_vars, view, should_quit, preview>>

\* F5 or Ctrl+R
EditorReroll ==
    /\ InEditor
    /\ \E ed \in reroll_random(editor[1]) : editor' = Some(ed)
    /\ UNCHANGED <<list_vars, view, should_quit, preview>>

\* mutant: a clipboard failure ends the program
EditorCopy_fatal ==
    /\ InEditor
    /\ \E accepted \in BOOLEAN :
         /\ editor' = Some(set_status(editor[1],
                                      IF accepted THEN "copied" ELSE "copy failed"))
         /\ should_quit' = ~accepted
    /\ UNCHANGED <<list_vars, view, preview>>

\* Ctrl+C: copy_rendered, the clipboard accepting the text or failing
EditorCopy ==
    /\ InEditor
    /\ \E accepted \in BOOLEAN :
         editor' = Some(set_status(editor[1],
                                   IF accepted THEN "copied" ELSE "copy failed"))
    /\ UNCHANGED <<list_vars, view, should_quit, preview>>

Next ==
    \/ Draw
    \/ Idle
    \/ KeyQuit
    \/ KeyMove
    \/ KeyEnter
    \/ KeyEdit
    \/ MouseDown
    \/ EditorEsc
    \/ EditorNext
    \/ EditorPrev
    \/ EditorBackspace
    \/ EditorChar
    \/ EditorReroll
    \/ EditorCopy

Spec == Init /\ [][Next]_vars

(***************************************************************************)
(* Properties of the editing session                                       *)
(***************************************************************************)
InSession == view = "Editor" /\ editor # None

\* what a token shows: a Var shows the value of the field of its name when
\* that value is not empty and its raw span otherwise
Shown(ed, token) ==
    IF token.kind = "Text" THEN token.text
    ELSE IF token.kind = "Random"
    THEN (IF token.choice # <<>> THEN token.choice ELSE token.raw)
    ELSE LET named == {i \in 1..Len(ed.fields) : ed.fields[i].name = token.name} IN
         IF \E i \in named : ed.fields[i].value # <<>>
         THEN ed.fields[CHOOSE i \in named : ed.fields[i].value # <<>>].value
         ELSE token.raw

ShownAll(ed) == Concat([i \in 1..Len(ed.tokens) |-> Shown(ed, ed.tokens[i])])

\* C3: after any typing, backspace and navigation the rendered text has, for
\* each Var token, the value of the field of that name when it is not empty
\* and the raw span otherwise, the same for every occurrence of a name.
C3_RenderFollowsFields ==
    (pc = "event" /\ InSession) => preview = Some(ShownAll(editor[1]))

C3_Witness ==
    /\ pc = "event"
    /\ InSession
    /\ \E i, j \in 1..Len(editor[1].tokens) :
         /\ i < j
         /\ editor[1].tokens[i].kind = "Var"
         /\ editor[1].tokens[j].kind = "Var"
         /\ editor[1].tokens[i].name = editor[1].tokens[j].name
    /\ editor[1].fields[1].value = <<"z">>
    /\ preview = Some(<<"z", "-", "z">>)

\* the tokens differ at most in the choice of Random tokens, each choice
\* being one of the token's options
SameButChoice(before, after) ==
    /\ Len(after) = Len(before)
    /\ \A i \in 1..Len(before) :
         IF before[i].kind = "Random"
         THEN /\ after[i].kind = "Random"
              /\ after[i].options = before[i].options
              /\ after[i].raw = before[i].raw
              /\ \E k \in 1..Len(before[i].options) : after[i].choice = before[i].options[k]
         ELSE after[i] = before[i]

\* C5: in a session every Random token has the options it was parsed with
\* and a choice among them, and a reroll changes nothing but those choices:
\* Text and Var tokens, the token order and every field stay as they were.
C5_RerollKeepsOptions ==
    [][/\ InSession' =>
            \E parsed \in parse_tokens(templates'[editor'[1].template_index + 1].body) :
                SameButChoice(parsed, editor'[1].tokens)
       /\ EditorReroll =>
            /\ SameButChoice(editor[1].tokens, editor'[1].tokens)
            /\ editor'[1].fields = editor[1].fields
            /\ editor'[1].active_field = editor[1].active_field]_vars

C5_Witness ==
    /\ InSession
    /\ editor[1].status = Some("rerolled")
    /\ \E i \in 1..Len(editor[1].tokens) :
         /\ editor[1].tokens[i].kind = "Random"
         /\ Len(editor[1].tokens[i].options) = 3
         /\ editor[1].tokens[i].choice = editor[1].tokens[i].options[3]
    /\ editor[1].fields[1].value # <<>>

(***************************************************************************)
(* App::load on its own (src/src/app.rs), over file systems whose          *)
(* prompts.md holds up to MaxLines lines                                   *)
(***************************************************************************)
MaxLines == 3

FileLines ==
    {<<"#", "#", " ", "A">>,
     <<"#", "#", "\t", "A", "/", "B", " ">>,
     <<"#", "#", "A">>,
     <<"#", "#", "#", " ", "A">>,
     <<"#", " ", "A">>,
     <<"#", "#", " ">>,
     <<" ", "#", "#", " ", "A">>,
     <<"{", "x", "}">>,
     <<>>}

RECURSIVE JoinLines(_)
JoinLines(lines) ==
    IF lines = <<>> THEN <<>>
    ELSE Head(lines) \o <<"\n">> \o JoinLines(Tail(lines))

FileContents ==
    Contents \cup
    {JoinLines(ls) : ls \in UNION {[1..n -> FileLines] : n \in 0..MaxLines}}

LoadEnvs ==
    {FileEnv(home, FALSE, can_create, readable, <<>>) :
        home \in BOOLEAN, can_create \in BOOLEAN, readable \in BOOLEAN}
    \cup {FileEnv(home, TRUE, FALSE, readable, c) :
             home \in BOOLEAN, readable \in BOOLEAN, c \in FileContents}

\* the App value that App::load returns
load(env) ==
    LET loaded == load_templates(env) IN
    IF loaded.ok
    THEN [templates |-> loaded.value,
          tree_items |-> build_tree_items(loaded.value),
          list_state |-> first_selected(build_tree_items(loaded.value)),
          view |-> "List",
          error_message |-> None]
    ELSE [templates |-> <<>>,
          tree_items |-> <<>>,
          list_state |-> None,
          view |-> "Error",
          error_message |-> Some(loaded.value)]

InitLoad ==
    /\ NoApp
    /\ body = <<>> /\ tokens = <<>> /\ fields = <<>> /\ output = <<>>
    /\ tree_templates = <<>> /\ tree_result = <<>>
    /\ preview = None
    /\ source \in {Some(env) : env \in LoadEnvs}
    /\ random_spec = <<>>
    /\ random_options = <<>>
    /\ pc = "load"

Load ==
    /\ pc = "load"
    /\ pc' = "loaded"
    /\ LET app == load(source[1]) IN
         /\ templates' = app.templates
         /\ tree_items' = app.tree_items
         /\ list_state' = app.list_state
         /\ view' = app.view
         /\ error_message' = app.error_message
    /\ UNCHANGED <<list_scroll, editor, last_click, tree_area, should_quit,
                   list_status, needs_redraw, preview, parser_vars, tree_vars,
                   source, random_vars>>

NextLoad == Load

SpecLoad == InitLoad /\ [][NextLoad]_vars

Loaded == pc = "loaded"

\* some line of the file is a heading: ## and a blank, then a title
HasHeadingLine(content) ==
    \E i \in 1..Len(Lines(content)) :
        LET line == Lines(content)[i] IN
        /\ Len(line) >= 4
        /\ line[1] = "#" /\ line[2] = "#" /\ line[3] \in {" ", "\t"}
        /\ \E k \in 4..Len(line) : ~IsWhitespace(line[k])

\* C12 as stated: loading fails when the file is missing, when it cannot
\* be read and when it holds no template, and succeeds otherwise.
C12_Original ==
    Loaded =>
        LET env == source[1]
            fails == \/ ~env.exists
                     \/ ~env.readable
                     \/ ~HasHeadingLine(env.content)
        IN  /\ fails => view = "Error" /\ error_message # None /\ templates = <<>>
            /\ ~fails => view = "List" /\ templates # <<>>

\* C12: loading fails exactly when the user directory is unknown, when a
\* missing file cannot be created, when the file cannot be read, or when it
\* holds no heading line; a missing file that can be created is written
\* with the default prompts, which are then the templates loaded.  The app
\* starts in the error view with a message and no templates when loading
\* fails, in the list view with a non-empty template list otherwise.
C12_LoadOutcome ==
    Loaded =>
        LET env == source[1]
            content == IF env.exists THEN env.content ELSE DEFAULT_PROMPTS
            fails == \/ ~env.home
                     \/ ~env.exists /\ ~env.can_create
                     \/ ~env.readable
                     \/ ~HasHeadingLine(content)
        IN  /\ fails => /\ view = "Error"
                        /\ error_message # None
                        /\ templates = <<>>
                        /\ tree_items = <<>>
            /\ ~fails => /\ view = "List"
                         /\ error_message = None
                         /\ templates = parse_templates(content)
                         /\ templates # <<>>
                         /\ tree_items = build_tree_items(templates)

C12_Witness ==
    /\ Loaded
    /\ ~source[1].exists /\ source[1].can_create
    /\ view = "List"
    /\ templates = parse_templates(DEFAULT_PROMPTS)
    /\ Len(templates) = 2

(***************************************************************************)
(* parse_random_options on its own, over option texts of up to             *)
(* MaxOptionLen characters and the two texts of the documented example     *)
(***************************************************************************)
MaxOptionLen == 6

OptionChars == {"\"", "a", "b", " ", ","}

ExampleBare == <<"a", ",", " ", "b", ",", " ", "c">>
ExampleQuoted == <<"\"", "a", "\"", " ", "\"", "b", "\"", " ", "\"", "c", "\"">>

OptionTexts ==
    {ExampleBare, ExampleQuoted}
    \cup UNION {[1..n -> OptionChars] : n \in 0..MaxOptionLen}

InitOptions ==
    /\ NoApp
    /\ body = <<>> /\ tokens = <<>> /\ fields = <<>> /\ output = <<>>
    /\ tree_templates = <<>> /\ tree_result = <<>>
    /\ preview = None
    /\ source = None
    /\ random_spec \in OptionTexts
    /\ random_options = <<>>
    /\ pc = "spec"

ParseOptions ==
    /\ pc = "spec"
    /\ random_options' = parse_random_options(random_spec)
    /\ pc' = "options"
    /\ UNCHANGED <<random_spec, parser_vars, tree_vars, app_vars, source>>

NextOptions == ParseOptions

SpecOptions == InitOptions /\ [][NextOptions]_vars

Extracted == pc = "options"

\* the positions of the double quotes of s, in order
QuotePositions(s) ==
    SelectSeq([i \in 1..Len(s) |-> i], LAMBDA i : s[i] = "\"")

\* the contents of the complete quoted runs of s, in order, then the text
\* after a last unclosed quote when there is some
QuotedRuns(s) ==
    LET q == QuotePositions(s)
        complete == [k \in 1..(Len(q) \div 2) |->
                        SubSeq(s, q[2 * k - 1] + 1, q[2 * k] - 1)]
        tail == IF Len(q) % 2 = 1 THEN SubSeq(s, q[Len(q)] + 1, Len(s)) ELSE <<>>
    IN  IF tail # <<>> THEN Append(complete, tail) ELSE complete

\* the positions where a maximal run of non-whitespace begins
WordStarts(s) ==
    SelectSeq([i \in 1..Len(s) |-> i],
              LAMBDA i : ~IsWhitespace(s[i]) /\ (i = 1 \/ IsWhitespace(s[i - 1])))

\* the maximal run of non-whitespace that begins at position i
WordAt(s, i) ==
    LET last == CHOOSE j \in i..Len(s) :
                    /\ \A k \in i..j : ~IsWhitespace(s[k])
                    /\ (j = Len(s) \/ IsWhitespace(s[j + 1]))
    IN  SubSeq(s, i, last)

\* w without its leading and trailing commas
StripCommas(w) ==
    LET kept == {i \in 1..Len(w) : w[i] # ","} IN
    IF kept = {} THEN <<>>
    ELSE SubSeq(w, CHOOSE i \in kept : \A j \in kept : i <= j,
                   CHOOSE i \in kept : \A j \in kept : j <= i)

\* the words of s without their outer commas, those left empty dropped
CommaWords(s) ==
    SelectSeq([k \in 1..Len(WordStarts(s)) |->
                  StripCommas(WordAt(s, WordStarts(s)[k]))],
              LAMBDA w : w # <<>>)

\* C21: when the text has a quoted run, the options are the contents of the
\* complete double-quoted runs, one each, in order, verbatim, duplicates
\* kept, nothing outside the quotes counting, followed by the content after a
\* last quote that is never closed when that content is not empty.
C21_QuotedRuns ==
    (Extracted /\ QuotedRuns(random_spec) # <<>>) =>
        random_options = QuotedRuns(random_spec)

C21_Witness ==
    /\ Extracted
    /\ Len(QuotePositions(random_spec)) = 3
    /\ Len(random_options) = 2
    /\ random_options[1] = random_options[2]
    /\ random_options[1] # <<>>
    /\ random_spec[1] # "\""

\* C22: the split on whitespace is used exactly when the quoted extraction
\* finds nothing: the options are then the whitespace-separated pieces, each
\* without its leading and trailing commas and only those, pieces left
\* empty dropped; a, b, c gives the options of "a" "b" "c".
C22_Fallback ==
    Extracted =>
        /\ QuotedRuns(random_spec) = <<>> => random_options = CommaWords(random_spec)
        /\ QuotedRuns(random_spec) # <<>> => random_options = QuotedRuns(random_spec)
        /\ random_spec = ExampleBare =>
              /\ random_options = <<<<"a">>, <<"b">>, <<"c">>>>
              /\ random_options = parse_random_options(ExampleQuoted)

C22_Witness ==
    /\ Extracted
    /\ random_spec = ExampleBare
    /\ random_options = <<<<"a">>, <<"b">>, <<"c">>>>

(***************************************************************************)
(* Properties of random placeholders                                       *)
(***************************************************************************)
RandomTokens(toks) == {i \in 1..Len(toks) : toks[i].kind = "Random"}

\* C11: every Random token produced by the tokenizer has a non-empty
\* choice, so that rendering it never falls back to the raw span.
C11_ChoiceNonEmpty ==
    /\ Tokenized => \A i \in RandomTokens(tokens) : tokens[i].choice # <<>>
    /\ (pc = "rendered" /\ \A i \in 1..Len(tokens) : tokens[i].kind = "Random")
         => output = Concat([i \in 1..Len(tokens) |-> tokens[i].choice])

\* C18: no option of a Random token is the empty string, whether it comes
\* from a quoted run or from the whitespace and comma split.
C18_NoEmptyOption ==
    Tokenized =>
        \A i \in RandomTokens(tokens) :
            \A k \in 1..Len(tokens[i].options) : tokens[i].options[k] # <<>>

(***************************************************************************)
(* Properties of the error view and of reloading                           *)
(***************************************************************************)
\* a failed initial load and the error view go together, without templates
ErrorBlocks ==
    (error_message # None \/ view = "Error") =>
        /\ view = "Error"
        /\ error_message # None
        /\ templates = <<>>
        /\ tree_items = <<>>
        /\ editor = None

\* C13: after a failed initial load the app is in the error view with an
\* error message and no templates, and no key or mouse event moves it to the
\* list view or to the editor view.
C13_ErrorBlocksBrowsing ==
    [][/\ ErrorBlocks
       /\ ErrorBlocks'
       /\ view = "Error" => view' = "Error"]_vars

C13_Witness ==
    /\ view = "Error"
    /\ error_message # None
    /\ should_quit
    /\ pc = "exit"

\* C14: in the error view some event reloads the templates and can bring
\* the app to the list view.
C14_ReloadFromError ==
    (view = "Error" /\ pc = "event") =>
        ENABLED (Next /\ view' = "List" /\ templates' # <<>>)

(***************************************************************************)
(* Properties of failures and of editing sessions                          *)
(***************************************************************************)
\* C15: a clipboard failure during a copy leaves the view on the editor,
\* does not quit, and changes nothing of the session but its status.
C15_CopyFailureHarmless ==
    [][(EditorCopy /\ editor'[1].status = Some("copy failed")) =>
          /\ view' = "Editor"
          /\ ~should_quit'
          /\ editor'[1].tokens = editor[1].tokens
          /\ editor'[1].fields = editor[1].fields
          /\ editor'[1].active_field = editor[1].active_field
          /\ editor' = Some([editor[1] EXCEPT !.status = Some("copy failed")])
          /\ UNCHANGED <<templates, tree_items, list_state, list_status,
                         error_message>>]_vars

C15_Witness ==
    /\ view = "Editor"
    /\ ~should_quit
    /\ editor[1].status = Some("copy failed")
    /\ \E k \in 1..Len(editor[1].fields) : editor[1].fields[k].value # <<>>
    /\ editor[1].active_field > 0

\* C16: a press of e that reports a failure leaves the view on the list
\* and the templates, the tree items and the selection as they were; only
\* a successful reload replaces them, and it reports nothing.
C16_FailedEditKeepsList ==
    [][KeyEdit =>
          /\ view' = "List"
          /\ list_status' # list_status =>
                UNCHANGED <<templates, tree_items, list_state, list_scroll,
                            editor, error_message, should_quit, last_click>>
          /\ <<templates, tree_items, list_state>>'
                # <<templates, tree_items, list_state>> =>
                /\ list_status' = list_status
                /\ needs_redraw'
                /\ templates' # <<>>
                /\ tree_items' = build_tree_items(templates')
                /\ list_state' = Some(0)]_vars

C16_Witness ==
    /\ view = "List"
    /\ list_status = Some("no templates found")
    /\ needs_redraw
    /\ templates # <<>>
    /\ list_state # None /\ list_state[1] > 0

\* C17: no event of the editor view changes the templates or the tree
\* items, and every entry into the editor view from the list view starts
\* with all field values empty and the first field active.
C17_SessionValues ==
    [][/\ (view = "Editor" /\ pc = "event") => UNCHANGED <<templates, tree_items>>
       /\ (view = "List" /\ view' = "Editor") =>
             /\ editor' # None
             /\ editor'[1].active_field = 0
             /\ \A k \in 1..Len(editor'[1].fields) :
                   editor'[1].fields[k].value = <<>>]_vars

\* the list view after Esc, on the template of the session left behind
C17_Witness ==
    /\ view = "List"
    /\ pc = "event"
    /\ editor # None
    /\ editor[1].active_field > 0
    /\ \E k \in 1..Len(editor[1].fields) : editor[1].fields[k].value # <<>>
    /\ list_state # None
    /\ list_state[1] < Len(tree_items)
    /\ tree_items[list_state[1] + 1].template_index = Some(editor[1].template_index)

(***************************************************************************)
(* Properties of the scan for braces                                       *)
(***************************************************************************)
\* 1-based position of the first c at or after position from, 0 if none
FirstAt(s, c, from) ==
    IF \E i \in from..Len(s) : s[i] = c
    THEN CHOOSE i \in from..Len(s) : s[i] = c /\ \A j \in from..(i - 1) : s[j] # c
    ELSE 0

\* 1-based position of the last c, 0 if none
LastAt(s, c) ==
    IF HasChar(s, c)
    THEN CHOOSE i \in 1..Len(s) : s[i] = c /\ \A j \in (i + 1)..Len(s) : s[j] # c
    ELSE 0

\* 1-based position of the first { that has no } after it, 0 if none
Unterminated(b) == FirstAt(b, "{", LastAt(b, "}") + 1)

\* 1-based position in the body of the first character of token k
StartOf(toks, k) == Len(SourceSpans(SubSeq(toks, 1, k - 1))) + 1

\* C19: when a { has no } after it, everything from that { to the end of
\* the body is the last token, a Text, the tokens before it stand for the
\* body before that {, text right before it is a Text token of its own, and so
\* no later { of that tail starts a placeholder.
C19_UnterminatedTail ==
    (Tokenized /\ Unterminated(body) # 0) =>
        LET p == Unterminated(body)
            n == Len(tokens)
        IN  /\ n >= 1
            /\ tokens[n] = Text(SubSeq(body, p, Len(body)))
            /\ SourceSpans(SubSeq(tokens, 1, n - 1)) = SubSeq(body, 1, p - 1)
            /\ (p > 1 /\ body[p - 1] # "}") =>
                   n >= 2 /\ tokens[n - 1].kind = "Text"

C19_Witness ==
    /\ Tokenized
    /\ Unterminated(body) > 1
    /\ body[Unterminated(body) - 1] # "}"
    /\ \E k \in (Unterminated(body) + 1)..Len(body) : body[k] = "{"
    /\ Len(tokens) >= 2
    /\ tokens[Len(tokens)].kind = "Text"
    /\ tokens[Len(tokens) - 1].kind = "Text"

\* C20: a token that begins with { ends at the first } after that {, whatever
\* lies between them, a { included, and the next token begins right after
\* that }; a token that does not begin with { holds no { at all; the body
\* { a{a} is one Var span whose inner text is " a{a".
C20_NoNesting ==
    Tokenized =>
        /\ \A k \in 1..Len(tokens) :
              LET span == SourceSpan(tokens[k])
                  start == StartOf(tokens, k)
                  close == FirstAt(body, "}", start)
              IN  /\ span # <<>>
                  /\ span = SubSeq(body, start, start + Len(span) - 1)
                  /\ IF span[1] = "{"
                     THEN IF close # 0
                          THEN start + Len(span) - 1 = close
                          ELSE k = Len(tokens) /\ tokens[k].kind = "Text"
                     ELSE tokens[k].kind = "Text" /\ ~HasChar(span, "{")
        /\ body = <<"{", " ", "a", "{", "a", "}">> =>
              tokens = <<Var(<<"a", "{", "a">>, None, body)>>

C20_Witness ==
    /\ Tokenized
    /\ \E k \in 1..(Len(tokens) - 1) :
          /\ tokens[k].kind = "Var"
          /\ HasChar(Tail(tokens[k].raw), "{")
          /\ HasChar(tokens[k].name, "{")
          /\ SourceSpan(tokens[k + 1])[1] = "{"

(***************************************************************************)
(* Properties of the tree paths                                            *)
(***************************************************************************)
\* name with every / written twice
RECURSIVE DoubleSlashes(_)
DoubleSlashes(name) ==
    IF name = <<>> THEN <<>>
    ELSE (IF Head(name) = "/" THEN <<"/", "/">> ELSE <<Head(name)>>)
            \o DoubleSlashes(Tail(name))

\* name with blanks around every /
RECURSIVE PadSlashes(_)
PadSlashes(name) ==
    IF name = <<>> THEN <<>>
    ELSE (IF Head(name) = "/" THEN <<" ", "/", "\t">> ELSE <<Head(name)>>)
            \o PadSlashes(Tail(name))

\* name between a leading and a trailing separator
WrapSlashes(name) == <<"/", " ">> \o name \o <<" ", "/">>

Renamed(tpls, Rename(_)) ==
    [i \in 1..Len(tpls) |-> Template(Rename(tpls[i].name), tpls[i].body)]

\* C23: writing // for /, putting blanks around the separators or adding a
\* leading and a trailing separator in the template names gives the same
\* tree items; A//B builds the tree of A/B.
C23_SeparatorsNormalized ==
    pc = "tree" =>
        /\ build_tree_items(Renamed(tree_templates, DoubleSlashes)) = tree_result
        /\ build_tree_items(Renamed(tree_templates, PadSlashes)) = tree_result
        /\ build_tree_items(Renamed(tree_templates, WrapSlashes)) = tree_result
        /\ NamesOf(tree_templates) = <<<<"A", "/", "/", "B">>>> =>
              /\ tree_result = build_tree_items(<<Template(<<"A", "/", "B">>, <<>>)>>)
              /\ tree_result = <<TreeItem(<<"A">>, 0, None), TreeItem(<<"B">>, 1, Some(0))>>

C23_Witness ==
    /\ pc = "tree"
    /\ NamesOf(tree_templates) =
          <<<<"A", "/", "/", "B">>, <<" ", "A", " ", "/", " ", "C", " ">>>>
    /\ tree_result = <<TreeItem(<<"A">>, 0, None),
                       TreeItem(<<"B">>, 1, Some(0)),
                       TreeItem(<<"C">>, 1, Some(1))>>

\* the positions of the tree items that carry template index i
ItemsOf(i) == {k \in 1..Len(tree_result) : tree_result[k].template_index = Some(i)}

\* C26: every template index is on at most one tree item, and index i is on
\* one exactly when the path of template i is not empty and no later
\* template has the same path; no item carries anything but a template index.
C26_IndexOnce ==
    pc = "tree" =>
        /\ \A i \in TemplateIds :
              /\ Cardinality(ItemsOf(i)) <= 1
              /\ ItemsOf(i) # {} <=>
                    /\ PathOf(i) # <<>>
                    /\ \A j \in TemplateIds : j > i => PathOf(j) # PathOf(i)
        /\ \A k \in 1..Len(tree_result) :
              tree_result[k].template_index # None =>
                 tree_result[k].template_index[1] \in TemplateIds

C26_Witness ==
    /\ pc = "tree"
    /\ NamesOf(tree_templates) = <<<<"A", "/", "B">>, <<"/">>, <<"A", "/", "/", "B">>>>
    /\ tree_result = <<TreeItem(<<"A">>, 0, None), TreeItem(<<"B">>, 1, Some(2))>>

(***************************************************************************)
(* Properties of the heading splitter                                      *)
(***************************************************************************)
\* the file of the load is there and can be read
FileRead == Loaded /\ source[1].home /\ source[1].exists /\ source[1].readable

\* line begins with ## and then a space or a tab
BeginsSection(line) ==
    /\ Len(line) >= 3
    /\ line[1] = "#" /\ line[2] = "#" /\ line[3] \in {" ", "\t"}

\* ... and something other than blanks follows
BeginsTitled(line) ==
    BeginsSection(line) /\ \E k \in 4..Len(line) : ~IsWhitespace(line[k])

\* the templates of a file whose sections begin at the lines that satisfy
\* Begins: named by the trimmed rest of that line, the body the lines up to
\* the next such line without the last line end
SectionsBy(content, Begins(_)) ==
    LET lines == Lines(content)
        heads == SelectSeq([i \in 1..Len(lines) |-> i], LAMBDA i : Begins(lines[i]))
        until(k) == IF k < Len(heads) THEN heads[k + 1] - 1 ELSE Len(lines)
    IN  [k \in 1..Len(heads) |->
            Template(Trim(SubSeq(lines[heads[k]], 3, Len(lines[heads[k]]))),
                     StripSuffix(JoinLines(SubSeq(lines, heads[k] + 1, until(k))),
                                 "\n"))]

\* C24 as stated: every line that begins with ## and a space or a tab starts
\* a template.
C24_Original ==
    FileRead => templates = SectionsBy(source[1].content, BeginsSection)

\* C24: a template starts at every line that begins with ## and a space or
\* a tab and has a title left after trimming, and only there; its name is
\* that title, the templates are in the order of these lines, and the lines
\* before the first of them are in no template.  A ## line with a blank rest
\* is a line like any other.
C24_Sections ==
    FileRead => templates = SectionsBy(source[1].content, BeginsTitled)

C24_Witness ==
    /\ FileRead
    /\ Lines(source[1].content) =
          <<<<"{", "x", "}">>, <<"#", "#", " ", "A">>, <<"#", "#", " ">>>>
    /\ templates = <<Template(<<"A">>, <<"#", "#", " ">>)>>
    /\ view = "List"

(***************************************************************************)
(* Properties of the session, the selection and the active field           *)
(***************************************************************************)
\* the session of the editor view is of a template of the collection
SessionValid(shown, session, tpls) ==
    shown = "Editor" =>
        /\ session # None
        /\ session[1].template_index < Len(tpls)
        /\ \E parsed \in parse_tokens(tpls[session[1].template_index + 1].body) :
              SameButChoice(parsed, session[1].tokens)

\* the template index of the selected item, None without one
SelectedTemplate(sel, items) ==
    IF sel # None /\ sel[1] < Len(items) THEN items[sel[1] + 1].template_index ELSE None

\* C25: in the editor view there is a session, its template_index is an
\* index of the templates and its tokens are a tokenization of the body of
\* that template; the templates change only in the list view; the editor
\* view is entered only from the list view, with a new session of the
\* template of the selected item.
C25_SessionOfTemplate ==
    [][/\ SessionValid(view, editor, templates)
       /\ SessionValid(view', editor', templates')
       /\ templates' # templates => view = "List" /\ view' = "List"
       /\ (view # "Editor" /\ view' = "Editor") =>
             /\ view = "List"
             /\ SelectedTemplate(list_state', tree_items) # None
             /\ \E toks \in parse_tokens(
                      templates[SelectedTemplate(list_state', tree_items)[1] + 1].body) :
                   editor' = Some(EditorState(
                      SelectedTemplate(list_state', tree_items)[1], toks))]_vars

C25_Witness ==
    /\ view = "Editor"
    /\ needs_redraw
    /\ editor # None
    /\ editor[1].template_index = 1
    /\ Len(templates) = 2
    /\ HasKind(editor[1].tokens, "Random")

\* with items in the list one of them is selected
SelectionValid ==
    tree_items # <<>> => list_state # None /\ list_state[1] < Len(tree_items)

\* C27: whenever the list has items the selection is one of them; a move
\* goes one item up or down and stays on the first or the last item at the
\* ends; a successful reload selects the first item and scrolls to the top.
C27_SelectionInRange ==
    [][/\ SelectionValid
       /\ SelectionValid'
       /\ (KeyMove /\ tree_items # <<>>) =>
             LET current == list_state[1]
                 next == list_state'[1]
             IN  \/ next = current + 1
                 \/ next = current - 1
                 \/ next = current /\ current \in {0, Len(tree_items) - 1}
       /\ (KeyEdit /\ (\/ templates' # templates
                       \/ tree_items' # tree_items
                       \/ list_status = None /\ list_status' = None)) =>
             /\ list_state' = first_selected(tree_items')
             /\ list_scroll' = 0]_vars

C27_Witness ==
    /\ view = "List"
    /\ needs_redraw
    /\ Len(tree_items) >= 3
    /\ list_state = Some(Len(tree_items) - 1)
    /\ list_scroll > 0

ActiveValid(ed) == ed.fields # <<>> => ed.active_field < Len(ed.fields)

\* ed after a change of nothing but its fields
SameButFields(before, after) == after = [before EXCEPT !.fields = after.fields]

\* fs after a change of nothing but the value of field number at
SameButValue(before, after, at) ==
    /\ Len(after) = Len(before)
    /\ \A k \in 1..Len(before) :
          IF k = at
          THEN after[k] = [before[k] EXCEPT !.value = after[k].value]
          ELSE after[k] = before[k]

\* C28: the active field is one of the fields when there are fields; the
\* next field after the last is the first and the previous field before the
\* first is the last; typing and backspace change the value of the active
\* field and nothing else; without fields none of the four changes anything.
C28_ActiveField ==
    [][/\ editor # None => ActiveValid(editor[1])
       /\ editor' # None => ActiveValid(editor'[1])
       /\ (EditorNext /\ editor[1].fields # <<>>) =>
             editor' = Some([editor[1] EXCEPT !.active_field =
                               IF @ = Len(editor[1].fields) - 1 THEN 0 ELSE @ + 1])
       /\ (EditorPrev /\ editor[1].fields # <<>>) =>
             editor' = Some([editor[1] EXCEPT !.active_field =
                               IF @ = 0 THEN Len(editor[1].fields) - 1 ELSE @ - 1])
       /\ (EditorChar /\ editor[1].fields # <<>>) =>
             /\ SameButFields(editor[1], editor'[1])
             /\ SameButValue(editor[1].fields, editor'[1].fields,
                             editor[1].active_field + 1)
             /\ \E ch \in TypedChars :
                   editor'[1].fields[editor[1].active_field + 1].value =
                      Append(editor[1].fields[editor[1].active_field + 1].value, ch)
       /\ (EditorBackspace /\ editor[1].fields # <<>>) =>
             /\ SameButFields(editor[1], editor'[1])
             /\ SameButValue(editor[1].fields, editor'[1].fields,
                             editor[1].active_field + 1)
             /\ LET value == editor[1].fields[editor[1].active_field + 1].value IN
                editor'[1].fields[editor[1].active_field + 1].value =
                   SubSeq(value, 1, Len(value) - 1)
       /\ ((EditorNext \/ EditorPrev \/ EditorChar \/ EditorBackspace)
              /\ editor[1].fields = <<>>) =>
             editor' = editor]_vars

C28_Witness ==
    /\ view = "Editor"
    /\ editor # None
    /\ Len(editor[1].fields) >= 2
    /\ editor[1].active_field = Len(editor[1].fields) - 1
    /\ editor[1].fields[1].value # <<>>
    /\ editor[1].fields[Len(editor[1].fields)].value = <<>>

\* a session without fields, for the last case of C28
C28_NoFields == view = "Editor" /\ editor # None /\ editor[1].fields = <<>>

\* C29: Enter or a double click on an item without template index leaves
\* the list view and the session as they are; the editor view is entered
\* only for an item with a template index, which is the template_index of
\* the new session.
C29_FolderNotOpened ==
    [][/\ ((KeyEnter \/ MouseDown)
             /\ SelectedTemplate(list_state', tree_items) = None) =>
             view' = "List" /\ editor' = editor
       /\ (view = "List" /\ view' = "Editor") =>
             /\ SelectedTemplate(list_state', tree_items) # None
             /\ editor' # None
             /\ Some(editor'[1].template_index) =
                   SelectedTemplate(list_state', tree_items)]_vars

C29_Witness ==
    /\ view = "List"
    /\ pc = "draw"
    /\ list_state # None
    /\ SelectedTemplate(list_state, tree_items) = None
    /\ last_click = list_state
    /\ list_state[1] > 0
    /\ editor # None

====
